---- MODULE Spec2Model ----
(***************************************************************************)
(* Model of pypeit/par/util.py: the reader, block locator, data-block      *)
(* interpreters, config-line partitioner, writer and dictionary evaluator  *)
(* of the .pypeit reduction-file format.                                   *)
(*                                                                         *)
(* A Python str is modelled as a sequence of one-character strings, so     *)
(* that strip/split/index/glob act on characters as they do in the code.   *)
(***************************************************************************)
EXTENDS Integers, Sequences, FiniteSets, TLC

VARIABLES
    text,   \* the characters of the reduction file on disk
    dlines, \* the lines of a data block handed to an interpreter
    fs,     \* the filesystem: the <<path, kind>> entries that exist
    call,   \* the function called and its arguments
    ret,    \* what the call returned or raised
    pc      \* "ready" before the call, "done" after it

vars == <<text, dlines, fs, call, ret, pc>>

(***************************************************************************)
(* Bounds of the model                                                     *)
(***************************************************************************)
MaxLines == 3
MaxRawLines == 4
MaxFiles == 2
MaxTableLines == 4
MaxList == 3
MaxKeys == 3

(***************************************************************************)
(* Python str methods                                                      *)
(***************************************************************************)
Whitespace == {" ", "\t", "\n"}

RECURSIVE str_lstrip(_)
str_lstrip(s) ==
    IF s # <<>> /\ Head(s) \in Whitespace THEN str_lstrip(Tail(s)) ELSE s

RECURSIVE str_rstrip(_)
str_rstrip(s) ==
    IF s # <<>> /\ s[Len(s)] \in Whitespace
    THEN str_rstrip(SubSeq(s, 1, Len(s) - 1)) ELSE s

str_strip(s) == str_rstrip(str_lstrip(s))

str_replace(s, a, b) == [i \in 1..Len(s) |-> IF s[i] = a THEN b ELSE s[i]]

\* s.find(c) for a single character c: 0-based index of its first
\* occurrence, -1 when absent (s.index(c) raises ValueError there)
str_find(s, c) ==
    IF \E i \in 1..Len(s) : s[i] = c
    THEN (CHOOSE i \in 1..Len(s) : s[i] = c /\ \A j \in 1..(i-1) : s[j] # c) - 1
    ELSE -1

\* s.split(c) for a single character c: the fields between the separators,
\* empty fields included
RECURSIVE str_split_on(_, _)
str_split_on(s, c) ==
    LET k == str_find(s, c) IN
    IF k < 0 THEN <<s>>
    ELSE <<SubSeq(s, 1, k)>> \o str_split_on(SubSeq(s, k + 2, Len(s)), c)

\* s.split(): the maximal runs of non-whitespace characters
RECURSIVE str_split(_)
str_split(s) ==
    LET t == str_lstrip(s) IN
    IF t = <<>> THEN <<>>
    ELSE LET n == IF \E i \in 1..Len(t) : t[i] \in Whitespace
                  THEN CHOOSE i \in 1..Len(t) :
                           t[i] \in Whitespace /\ \A j \in 1..(i-1) : t[j] \notin Whitespace
                  ELSE Len(t) + 1
         IN <<SubSeq(t, 1, n - 1)>> \o str_split(SubSeq(t, n, Len(t)))

\* sep.join(parts)
RECURSIVE str_join(_, _)
str_join(sep, parts) ==
    IF parts = <<>> THEN <<>>
    ELSE IF Len(parts) = 1 THEN parts[1]
    ELSE parts[1] \o sep \o str_join(sep, Tail(parts))

\* A slice bound x as Python and numpy normalise it for length n
slice_bound(n, x) ==
    IF x < 0 THEN (IF x + n < 0 THEN 0 ELSE x + n) ELSE (IF x > n THEN n ELSE x)

\* The slice a[lo:hi] of a list or array
Slice(a, lo, hi) ==
    LET l == slice_bound(Len(a), lo)
        h == slice_bound(Len(a), hi)
    IN IF l >= h THEN <<>> ELSE SubSeq(a, l + 1, h)

Range(s) == {s[i] : i \in 1..Len(s)}

NL == <<"\n">>

(***************************************************************************)
(* Words of the format                                                     *)
(***************************************************************************)
W_data  == <<"d","a","t","a">>
W_setup == <<"s","e","t","u","p">>
W_read  == <<"r","e","a","d">>
W_end   == <<"e","n","d">>
W_skip  == <<"s","k","i","p">>
W_path  == <<"p","a","t","h">>

(***************************************************************************)
(* _read_pypeit_file_lines                                                 *)
(***************************************************************************)
\* f.readlines(): the text cut after each newline, the newline kept
RECURSIVE readlines(_)
readlines(t) ==
    IF t = <<>> THEN <<>>
    ELSE LET k == str_find(t, "\n") IN
         IF k < 0 THEN <<t>>
         ELSE <<SubSeq(t, 1, k + 1)>> \o readlines(SubSeq(t, k + 2, Len(t)))

_read_pypeit_file_lines(t) ==
    LET raw == readlines(t)
        cleaned == [i \in 1..Len(raw) |->
                      str_strip(str_replace(str_replace(raw[i], "\t", " "), "\n", " "))]
        kept == SelectSeq(cleaned, LAMBDA l : Len(l) > 0 /\ l[1] # "#")
    IN [i \in 1..Len(kept) |-> str_split_on(kept[i], "#")[1]]

(***************************************************************************)
(* _find_pypeit_block                                                      *)
(***************************************************************************)
\* The for loop from index i (0-based) on, with the current start and end.
\* entries[0] and entries[1] raise IndexError on a line with too few tokens.
RECURSIVE find_loop(_, _, _, _, _)
find_loop(lines, group, i, start, end) ==
    IF i >= Len(lines) THEN [status |-> "ok", start |-> start, end |-> end]
    ELSE
      LET entries == str_split(lines[i + 1])
          n == Len(entries)
          IndexError == [status |-> "IndexError", start |-> start, end |-> end]
      IN
      IF start < 0 /\ n = 0 THEN IndexError
      ELSE IF start < 0 /\ entries[1] = group /\ n < 2 THEN IndexError
      ELSE IF start < 0 /\ entries[1] = group /\ entries[2] = W_read
           THEN find_loop(lines, group, i + 1, i + 1, end)
      ELSE IF n = 0 THEN IndexError
      ELSE IF entries[1] = group /\ n < 2 THEN IndexError
      ELSE IF entries[1] = group /\ entries[2] = W_end
           THEN find_loop(lines, group, i + 1, start, i)
      ELSE IF start >= 0 /\ end >= 0
           THEN [status |-> "ok", start |-> start, end |-> end]
      ELSE find_loop(lines, group, i + 1, start, end)

_find_pypeit_block(lines, group) == find_loop(lines, group, 0, -1, -1)

(***************************************************************************)
(* The filesystem: fs is the set of <<path, kind>> entries that exist,     *)
(* kind being "file" or "dir".  Paths are written the way glob reports     *)
(* them (no doubled or trailing slash, no "." component).                  *)
(***************************************************************************)
FsPaths(f) == {e[1] : e \in f}

isfile(f, p) == <<p, "file">> \in f

lexists(f, p) == p \in FsPaths(f)

\* os.path.join(a, b)
os_path_join(a, b) ==
    IF b # <<>> /\ Head(b) = "/" THEN b
    ELSE IF a = <<>> \/ a[Len(a)] = "/" THEN a \o b
    ELSE a \o <<"/">> \o b

\* os.path.expanduser(p) for the running user, whose home is HomeDir; a
\* "~name" prefix of another user is left alone (no such user)
HomeDir == <<"/", "h">>

expanduser(p) ==
    IF p # <<>> /\ Head(p) = "~" /\ (Len(p) = 1 \/ p[2] = "/")
    THEN HomeDir \o Tail(p) ELSE p

\* fnmatch of one path component against one pattern component
RECURSIVE fnmatch(_, _)
fnmatch(name, pat) ==
    IF pat = <<>> THEN name = <<>>
    ELSE IF Head(pat) = "*"
         THEN fnmatch(name, Tail(pat)) \/ (name # <<>> /\ fnmatch(Tail(name), pat))
    ELSE IF Head(pat) = "?"
         THEN name # <<>> /\ fnmatch(Tail(name), Tail(pat))
    ELSE name # <<>> /\ Head(name) = Head(pat) /\ fnmatch(Tail(name), Tail(pat))

has_magic(p) == \E i \in 1..Len(p) : p[i] \in {"*", "?", "["}

\* glob: a pattern without magic matches itself when it exists; otherwise
\* the components are matched one by one, and a leading "." is matched only
\* by a pattern component that starts with "."
glob_match(pat, p) ==
    IF ~ has_magic(pat) THEN p = pat
    ELSE LET pc_ == str_split_on(pat, "/")
             nc == str_split_on(p, "/")
         IN /\ Len(pc_) = Len(nc)
            /\ \A i \in 1..Len(pc_) :
                  /\ fnmatch(nc[i], pc_[i])
                  /\ (nc[i] # <<>> /\ Head(nc[i]) = ".")
                        => (pc_[i] # <<>> /\ Head(pc_[i]) = ".")

\* glob.glob(pat): the matching entries in the order ls in which the
\* operating system lists them
glob_glob(pat, ls) == SelectSeq(ls, LAMBDA p : glob_match(pat, p))

\* The orders in which the entries of a set can be listed
Perms(S) ==
    {q \in [1..Cardinality(S) -> S] : \A i, j \in 1..Cardinality(S) : q[i] = q[j] => i = j}

HasDuplicates(x) == Len(x) # Cardinality(Range(x))

\* The orders list(set(x)) can produce
SetOrders(x) == Perms(Range(x))

(***************************************************************************)
(* _parse_data_file_name, _read_data_file_names                            *)
(***************************************************************************)
\* None, as a value no str equals
None == <<"None">>

\* inp[0] raises IndexError on the empty string
_parse_data_file_name(inp, current_path, ls) ==
    IF inp = <<>> THEN [status |-> "IndexError", files |-> <<>>]
    ELSE LET out == IF Head(inp) = "~" THEN expanduser(inp) ELSE inp
             full == IF current_path # None THEN os_path_join(current_path, out) ELSE out
         IN [status |-> "ok", files |-> glob_glob(full, ls)]

\* The pass over the lines, from line k (1-based) on
RECURSIVE names_loop(_, _, _, _, _, _)
names_loop(lines, k, current_path, skip_inp, read_inp, ls) ==
    IF k > Len(lines)
    THEN [status |-> "ok", skip_inp |-> skip_inp, read_inp |-> read_inp]
    ELSE
      LET l == lines[k]
          _l == str_split_on(l, " ")
          space_ind == str_find(l, " ")
          rest == SubSeq(l, space_ind + 2, Len(l))
          fail(e) == [status |-> e, skip_inp |-> skip_inp, read_inp |-> read_inp]
      IN
      IF _l[1] = W_skip
      THEN IF space_ind < 0 THEN fail("ValueError")
           ELSE LET g == _parse_data_file_name(rest, current_path, ls) IN
                IF g.status # "ok" THEN fail(g.status)
                ELSE names_loop(lines, k + 1, current_path, skip_inp \o g.files, read_inp, ls)
      ELSE IF _l[1] = W_path
      THEN IF space_ind < 0 THEN fail("ValueError")
           ELSE names_loop(lines, k + 1, rest, skip_inp, read_inp, ls)
      ELSE LET g == _parse_data_file_name(l, current_path, ls) IN
           IF g.status # "ok" THEN fail(g.status)
           ELSE names_loop(lines, k + 1, current_path, skip_inp, read_inp \o g.files, ls)

dedup_read_never(read_inp, ho) == read_inp

\* The read list once repeated entries are removed: list(set(read_inp)) in
\* the order ho when there are repeats, read_inp itself otherwise
dedup_read(read_inp, ho) ==
    IF Len(read_inp) > 0 /\ HasDuplicates(read_inp) THEN ho ELSE read_inp

\* list.remove(x): drops the first occurrence of x
list_remove(x, e) ==
    LET k == CHOOSE i \in 1..Len(x) : x[i] = e /\ \A j \in 1..(i-1) : x[j] # e
    IN SubSeq(x, 1, k - 1) \o SubSeq(x, k + 1, Len(x))

\* for _skip in skip_inp: if _skip in read_inp: read_inp.remove(_skip)
RECURSIVE remove_skipped(_, _)
remove_skipped(read_inp, skip_inp) ==
    IF skip_inp = <<>> THEN read_inp
    ELSE remove_skipped(IF Head(skip_inp) \in Range(read_inp)
                        THEN list_remove(read_inp, Head(skip_inp)) ELSE read_inp,
                        Tail(skip_inp))

\* The orders in which a repeated read list can come out of list(set(.))
ReadOrders(lines, ls) ==
    LET pre == names_loop(lines, 1, None, <<>>, <<>>, ls) IN
    IF pre.status = "ok" /\ HasDuplicates(pre.read_inp)
    THEN SetOrders(pre.read_inp) ELSE {<<>>}

\* f is the filesystem, ls the order in which it lists its entries, ho the
\* order of list(set(read_inp)).  The order of list(set(skip_inp)) does not
\* reach the result: every skipped name is removed from a read list that
\* holds it at most once.
_read_data_file_names(lines, file_check, f, ls, ho) ==
    LET pre == names_loop(lines, 1, None, <<>>, <<>>, ls) IN
    IF pre.status # "ok" THEN [status |-> pre.status, files |-> <<>>]
    ELSE LET read_inp == remove_skipped(dedup_read(pre.read_inp, ho), pre.skip_inp) IN
         IF file_check /\ \E i \in 1..Len(read_inp) : ~ isfile(f, read_inp[i])
         THEN [status |-> "FileNotFoundError", files |-> <<>>]
         ELSE [status |-> "ok", files |-> read_inp]

(***************************************************************************)
(* _determine_data_format, _read_data_file_table                           *)
(***************************************************************************)
W_filename  == <<"f","i","l","e","n","a","m","e">>
W_frametype == <<"f","r","a","m","e","t","y","p","e">>

\* l[0] raises IndexError on an empty line met before the first "|" line
RECURSIVE _determine_data_format(_)
_determine_data_format(lines) ==
    IF lines = <<>> THEN "raw"
    ELSE IF Head(lines) = <<>> THEN "IndexError"
    ELSE IF Head(lines)[1] = "|" THEN "table"
    ELSE _determine_data_format(Tail(lines))

\* The leading run of "path" lines, from line k (1-based) on; l.index(" ")
\* raises ValueError on a line without a space
RECURSIVE table_paths(_, _, _)
table_paths(lines, k, paths) ==
    IF k > Len(lines) THEN [status |-> "ok", paths |-> paths]
    ELSE LET l == lines[k]
             space_ind == str_find(l, " ")
         IN IF space_ind < 0 THEN [status |-> "ValueError", paths |-> paths]
            ELSE IF str_strip(SubSeq(l, 1, space_ind)) # W_path
                 THEN [status |-> "ok", paths |-> paths]
            ELSE table_paths(lines, k + 1, paths \o <<SubSeq(l, space_ind + 2, Len(l))>>)

\* [ l.strip() for l in line.split('|') ][1:-1]
table_cells(line) ==
    LET c == str_split_on(line, "|") IN
    [i \in 1..(IF Len(c) >= 2 THEN Len(c) - 2 ELSE 0) |-> str_strip(c[i + 1])]

\* 0-based position of the last column called key: data[key] = tbl[:,i] is
\* overwritten by a later column of the same name
column_of(header, key) ==
    CHOOSE i \in 1..Len(header) : header[i] = key /\ \A j \in (i+1)..Len(header) : header[j] # key

\* The loop that resolves the file name of each row, from row i (0-based)
\* on.  filename is the local variable of that name: Unbound until the loop
\* over the paths has assigned it, and kept from one row to the next.
Unbound == <<"Unbound">>

RECURSIVE try_paths(_, _, _, _)
try_paths(f, paths, name, filename) ==
    IF paths = <<>> THEN filename
    ELSE LET fn == os_path_join(Head(paths), name) IN
         IF isfile(f, fn) THEN fn ELSE try_paths(f, Tail(paths), name, fn)

RECURSIVE table_files(_, _, _, _, _, _, _)
table_files(f, paths, names, i, filename, data_files, file_check) ==
    IF i >= Len(names) THEN [status |-> "ok", files |-> data_files]
    ELSE LET fn == try_paths(f, paths, names[i + 1], filename) IN
         IF fn = Unbound THEN [status |-> "UnboundLocalError", files |-> data_files]
         ELSE IF ~ isfile(f, fn) /\ file_check
              THEN [status |-> "MissingFile", files |-> data_files \o <<fn>>]
         ELSE table_files(f, paths, names, i + 1, fn, data_files \o <<fn>>, file_check)

_read_data_file_table(lines, file_check, f) ==
    LET pp == table_paths(lines, 1, <<>>)
        npaths == Len(pp.paths)
        fail(e) == [status |-> e, files |-> <<>>, frametype |-> <<>>, tbl |-> <<>>,
                    rows_read |-> 0]
    IN
    IF pp.status # "ok" THEN fail(pp.status)
    ELSE IF npaths >= Len(lines) THEN fail("IndexError")
    ELSE
      LET header == table_cells(lines[npaths + 1])
          nfiles == Len(lines) - npaths - 1
          rows == [i \in 1..nfiles |-> table_cells(lines[i + npaths + 1])]
          bad == {i \in 1..nfiles : Len(rows[i]) # Len(header)}
      IN
      IF W_filename \notin Range(header) THEN fail("SchemaError")
      ELSE IF W_frametype \notin Range(header) THEN fail("SchemaError")
      ELSE IF bad # {}
           THEN [fail("ColumnMismatch") EXCEPT
                    !.rows_read = CHOOSE i \in bad : \A j \in bad : i <= j]
      ELSE
        LET names == [i \in 1..nfiles |-> rows[i][column_of(header, W_filename)]]
            types == [i \in 1..nfiles |-> rows[i][column_of(header, W_frametype)]]
            r == table_files(f, pp.paths, names, 0, Unbound, <<>>, file_check)
        IN [status |-> r.status, files |-> r.files,
            frametype |-> [i \in 1..nfiles |-> <<names[i], types[i]>>],
            tbl |-> rows, rows_read |-> nfiles]

(***************************************************************************)
(* _parse_setup_lines.  yaml.safe_load is a library outside the            *)
(* repository: y stands for what it makes of the joined lines, -1 when it  *)
(* raises and otherwise the number of top-level keys that contain          *)
(* "Setup".  An empty block loads as None, and iterating None raises.      *)
(***************************************************************************)
YamlResults == -1..2

_parse_setup_lines(lines, y) ==
    IF lines = <<>> THEN [status |-> "TypeError", nsetups |-> 0]
    ELSE IF y < 0 THEN [status |-> "YAMLError", nsetups |-> 0]
    ELSE [status |-> "ok", nsetups |-> y]

(***************************************************************************)
(* The keep-mask over the line indices (0-based)                           *)
(***************************************************************************)
\* The indices (0-based) the slice [lo:hi] selects in an array of length n
np_slice(n, lo, hi) ==
    {i \in 0..(n - 1) : slice_bound(n, lo) <= i /\ i < slice_bound(n, hi)}

\* is_config[s-1:e+1] = False
mask_block(is_config, n, s, e) == is_config \ np_slice(n, s - 1, e + 1)

\* lines[is_config]
RECURSIVE np_select(_, _, _)
np_select(lines, is_config, i) ==
    IF i >= Len(lines) THEN <<>>
    ELSE (IF i \in is_config THEN <<lines[i + 1]>> ELSE <<>>)
         \o np_select(lines, is_config, i + 1)

(***************************************************************************)
(* pypeit_config_lines                                                     *)
(***************************************************************************)
missing_end_never(s, e) == FALSE

\* if s >= 0 and e < 0: msgs.error("Missing '<block> end' ...")
missing_end(s, e) == s >= 0 /\ e < 0

missing_data_never(s) == FALSE

\* if s < 0: msgs.error("You haven't specified any data!")
missing_data(s) == s < 0

pypeit_config_lines(t) ==
    LET lines == _read_pypeit_file_lines(t)
        n == Len(lines)
        all == 0..(n - 1)
        d == _find_pypeit_block(lines, W_data)
        u == _find_pypeit_block(lines, W_setup)
        out(st, keep) == [status |-> st, keep |-> keep, cfg |-> np_select(lines, keep, 0),
                          data |-> <<d.start, d.end>>,
                          setup |-> IF d.status = "ok" /\ ~ missing_end(d.start, d.end)
                                    THEN <<u.start, u.end>> ELSE <<-1, -1>>,
                          warnings |-> {}]
    IN
    IF d.status # "ok" THEN out(d.status, {})
    ELSE IF missing_end(d.start, d.end) THEN out("MissingDataEnd", {})
    ELSE LET m1 == IF ~ (d.start < 0) THEN mask_block(all, n, d.start, d.end) ELSE all IN
         IF u.status # "ok" THEN out(u.status, {})
         ELSE IF missing_end(u.start, u.end) THEN out("MissingSetupEnd", {})
         ELSE LET m2 == IF ~ (u.start < 0) THEN mask_block(m1, n, u.start, u.end) ELSE m1
              IN out("ok", m2)

(***************************************************************************)
(* parse_pypeit_file                                                       *)
(***************************************************************************)
\* The lines of the data block as parse_pypeit_file hands them on
data_block_lines(t) ==
    LET lines == _read_pypeit_file_lines(t)
        d == _find_pypeit_block(lines, W_data)
    IN IF d.status = "ok" /\ d.start >= 0 /\ d.end >= 0
       THEN Slice(lines, d.start, d.end) ELSE <<>>

parse_pypeit_file(t, file_check, runtime, f, ls, ho, y) ==
    LET lines == _read_pypeit_file_lines(t)
        n == Len(lines)
        all == 0..(n - 1)
        d == _find_pypeit_block(lines, W_data)
        u == _find_pypeit_block(lines, W_setup)
        block == Slice(lines, d.start, d.end)
        data_format == _determine_data_format(block)
        r == IF data_format = "raw"
             THEN _read_data_file_names(block, file_check, f, ls, ho)
             ELSE _read_data_file_table(block, file_check, f)
        m1 == mask_block(all, n, d.start, d.end)
        setup == _parse_setup_lines(Slice(lines, u.start, u.end), y)
        m2 == IF u.start < 0 THEN m1 ELSE mask_block(m1, n, u.start, u.end)
        nsetups == IF u.start < 0 THEN 0 ELSE setup.nsetups
        warn == IF u.start < 0 THEN {"MissingSetupBlock"} ELSE {}
        out(st, keep, files, w, sfound) ==
            [status |-> st, keep |-> keep, cfg |-> np_select(lines, keep, 0),
             files |-> files, data |-> <<d.start, d.end>>,
             setup |-> IF sfound THEN <<u.start, u.end>> ELSE <<-1, -1>>, warnings |-> w]
    IN
    IF d.status # "ok" THEN out(d.status, {}, <<>>, {}, FALSE)
    ELSE IF missing_end(d.start, d.end) THEN out("MissingDataEnd", {}, <<>>, {}, FALSE)
    ELSE IF missing_data(d.start) THEN out("NoData", {}, <<>>, {}, FALSE)
    ELSE IF data_format = "IndexError" THEN out("IndexError", {}, <<>>, {}, FALSE)
    ELSE IF r.status # "ok" THEN out(r.status, {}, <<>>, {}, FALSE)
    ELSE IF Len(r.files) = 0 /\ file_check THEN out("NoFrames", {}, <<>>, {}, FALSE)
    ELSE IF u.status # "ok" THEN out(u.status, {}, <<>>, {}, FALSE)
    ELSE IF missing_end(u.start, u.end) THEN out("MissingSetupEnd", {}, <<>>, {}, TRUE)
    ELSE IF u.start >= 0 /\ setup.status # "ok" THEN out(setup.status, {}, <<>>, warn, TRUE)
    ELSE IF runtime /\ data_format = "raw" THEN out("AttributeError", {}, <<>>, warn, TRUE)
    ELSE IF runtime /\ nsetups # 1 THEN out("NoSetupInfo", {}, <<>>, warn, TRUE)
    ELSE out("ok", m2, r.files, warn, TRUE)

(***************************************************************************)
(* parse_tool_config, for a tool whose block is called block               *)
(***************************************************************************)
parse_tool_config(t, block, check_files, f, ls, ho) ==
    LET lines == _read_pypeit_file_lines(t)
        n == Len(lines)
        b == _find_pypeit_block(lines, block)
        s == b.start
        e == b.end
        r == _read_data_file_names(Slice(lines, s, e), TRUE, f, ls, ho)
        cfg == mask_block(0..(n - 1), n, s, e)
        out(st, keep, files) == [status |-> st, keep |-> keep,
                                 cfg |-> np_select(lines, keep, 0), files |-> files,
                                 data |-> <<s, e>>, setup |-> <<-1, -1>>, warnings |-> {}]
    IN
    IF b.status # "ok" THEN out(b.status, {}, None)
    ELSE IF s >= 0 /\ e < 0 THEN out("ok", cfg, None)
    ELSE IF s < 0 \/ s = e THEN out("ok", cfg, None)
    ELSE IF check_files
         THEN (IF r.status # "ok" THEN out(r.status, {}, None) ELSE out("ok", cfg, r.files))
    ELSE out("ok", cfg, Slice(lines, s, e))

(***************************************************************************)
(* Reduction files for the block locator and the partitioners: up to       *)
(* MaxLines lines, each a marker, a data file, or the lone word "data".    *)
(***************************************************************************)
BoundedSeq(S, n) == UNION {[1..k -> S] : k \in 0..n}

L_data_read  == W_data \o <<" ">> \o W_read
L_data_end   == W_data \o <<" ">> \o W_end
L_setup_read == W_setup \o <<" ">> \o W_read
L_setup_end  == W_setup \o <<" ">> \o W_end

BlockLineSet == {L_data_read, L_data_end, L_setup_read, L_setup_end, <<" ", "a">>, W_data}

\* The text of a file with the given lines
RECURSIVE file_text(_)
file_text(ls) == IF ls = <<>> THEN <<>> ELSE Head(ls) \o NL \o file_text(Tail(ls))

BlockTexts == {file_text(ls) : ls \in BoundedSeq(BlockLineSet, MaxLines) \ {<<>>}}

BlockFs == {{}, {<< <<"a">>, "file" >>}}

NoCall == [fn |-> "none"]
NoRet  == [status |-> "none"]

InitBlock ==
    /\ text \in BlockTexts
    /\ dlines = <<>>
    /\ fs \in BlockFs
    /\ call = NoCall
    /\ ret = NoRet
    /\ pc = "ready"

FindBlock ==
    /\ pc = "ready"
    /\ \E g \in {W_data, W_setup} :
          /\ call' = [fn |-> "_find_pypeit_block", group |-> g]
          /\ ret' = _find_pypeit_block(_read_pypeit_file_lines(text), g)
    /\ pc' = "done"
    /\ UNCHANGED <<text, dlines, fs>>

ConfigLines ==
    /\ pc = "ready"
    /\ call' = [fn |-> "pypeit_config_lines"]
    /\ ret' = pypeit_config_lines(text)
    /\ pc' = "done"
    /\ UNCHANGED <<text, dlines, fs>>

ParseFile ==
    /\ pc = "ready"
    /\ \E file_check \in BOOLEAN, runtime \in BOOLEAN, y \in YamlResults :
       \E ls \in Perms(FsPaths(fs)) :
       \E ho \in ReadOrders(data_block_lines(text), ls) :
          /\ call' = [fn |-> "parse_pypeit_file", file_check |-> file_check,
                      runtime |-> runtime]
          /\ ret' = parse_pypeit_file(text, file_check, runtime, fs, ls, ho, y)
    /\ pc' = "done"
    /\ UNCHANGED <<text, dlines, fs>>

ToolConfig ==
    /\ pc = "ready"
    /\ \E check_files \in BOOLEAN :
       \E ls \in Perms(FsPaths(fs)) :
       \E ho \in ReadOrders(data_block_lines(text), ls) :
          /\ call' = [fn |-> "parse_tool_config", check_files |-> check_files]
          /\ ret' = parse_tool_config(text, W_data, check_files, fs, ls, ho)
    /\ pc' = "done"
    /\ UNCHANGED <<text, dlines, fs>>

NextBlock == FindBlock \/ ConfigLines \/ ParseFile \/ ToolConfig

SpecBlock == InitBlock /\ [][NextBlock]_vars

(***************************************************************************)
(* Properties of the block locator and the partitioners                    *)
(***************************************************************************)
Lines == _read_pypeit_file_lines(text)

Min(S) == CHOOSE x \in S : \A y \in S : x <= y

\* Line l is the marker "<group> <word>"
IsMarker(l, group, word) ==
    LET e == str_split(l) IN Len(e) >= 2 /\ e[1] = group /\ e[2] = word

\* The indices (0-based) of the marker lines of a group
ReadIdx(group) == {i \in 0..(Len(Lines) - 1) : IsMarker(Lines[i + 1], group, W_read)}
EndIdx(group)  == {i \in 0..(Len(Lines) - 1) : IsMarker(Lines[i + 1], group, W_end)}

\* A line made of the lone word data or setup, on which the locator fails
LoneWord == \E i \in 1..Len(Lines) : str_split(Lines[i]) \in {<<W_data>>, <<W_setup>>}

Partitioners == {"pypeit_config_lines", "parse_pypeit_file"}

Returned(fns) == pc = "done" /\ call.fn \in fns

FirstStart(group) == IF ReadIdx(group) = {} THEN -1 ELSE Min(ReadIdx(group)) + 1

FirstEnd(group) ==
    LET closing == {j \in EndIdx(group) : FirstStart(group) >= 0 /\ j >= FirstStart(group)}
    IN IF closing = {} THEN -1 ELSE Min(closing)

\* C3: the locator returns 1 + the index of the first "<name> read" line
\* (-1 without one) and the index of the first "<name> end" line that closes
\* it (-1 without one); later marker lines do not change the pair.
C3_FirstPairHonored ==
    (Returned({"_find_pypeit_block"}) /\ ret.status = "ok")
        => /\ ret.start = FirstStart(call.group)
           /\ ret.start >= 0 => ret.end = FirstEnd(call.group)

\* C4: whenever a partitioner returns normally, every block it located has
\* its end line after its start line: 1 <= start <= end.
C4_EndFollowsStart ==
    (Returned(Partitioners) /\ ret.status = "ok")
        => \A b \in {ret.data, ret.setup} : b[1] >= 0 => (1 <= b[1] /\ b[1] <= b[2])

\* The read line of the group has no end line after it
Unterminated(group) ==
    ReadIdx(group) # {} /\ \A j \in EndIdx(group) : j < Min(ReadIdx(group))

\* The group has a read line and the file has no end line of the group
NoEndAtAll(group) == ReadIdx(group) # {} /\ EndIdx(group) = {}

\* The statuses of parse_pypeit_file and pypeit_config_lines that lie past
\* the check for a missing "setup end"
PastSetupEndCheck == {"ok", "TypeError", "YAMLError", "AttributeError", "NoSetupInfo"}

\* C5 as stated: an unterminated data block raises the missing-end error,
\* an unterminated setup block only warns and the parse continues.
C5_SetupEndOnlyWarns ==
    Returned(Partitioners)
        => /\ Unterminated(W_data) => ret.status = "MissingDataEnd"
           /\ Unterminated(W_setup) => ret.status # "MissingSetupEnd"

\* C5 (amended): an unterminated block is fatal for both blocks.  With a
\* "data read" line and no "data end" line the call raises the missing-end
\* error (or the scan has failed on a lone block name); with a "setup read"
\* line and no "setup end" line the call never gets past the missing-end
\* check.  Only an absent setup block is a warning.
C5_UnterminatedIsFatal ==
    Returned(Partitioners)
        => /\ NoEndAtAll(W_data) => ret.status \in {"MissingDataEnd", "IndexError"}
           /\ NoEndAtAll(W_setup) => ret.status \notin PastSetupEndCheck
           /\ (call.fn = "parse_pypeit_file" /\ ret.status = "ok" /\ ReadIdx(W_setup) = {})
                 => ret.warnings = {"MissingSetupBlock"}

C5_Witness ==
    /\ Returned({"parse_pypeit_file"})
    /\ NoEndAtAll(W_setup)
    /\ ret.status = "MissingSetupEnd"

\* The data block is started and terminated
TerminatedData == ReadIdx(W_data) # {} /\ ~ Unterminated(W_data)

\* C6 as stated: both partitioners fail without a "data read" line, and
\* return normally with a well-formed data block and no setup block.
C6_DataMandatoryEverywhere ==
    Returned(Partitioners)
        => /\ ReadIdx(W_data) = {} => ret.status # "ok"
           /\ (TerminatedData /\ ReadIdx(W_setup) = {}) => ret.status = "ok"

\* The statuses with which parse_pypeit_file fails in the interpretation of
\* the data block or in the runtime checks
DataOrRuntimeFailure ==
    {"IndexError", "ValueError", "FileNotFoundError", "SchemaError", "ColumnMismatch",
     "UnboundLocalError", "MissingFile", "NoFrames", "AttributeError", "NoSetupInfo"}

\* C6 (amended): parse_pypeit_file treats the data block as mandatory and
\* the setup block as optional; pypeit_config_lines treats both as optional.
\* Without a "data read" line parse_pypeit_file fails and pypeit_config_lines
\* returns normally (its setup block terminated if started, no lone block
\* name).  With a terminated data block and no setup block
\* pypeit_config_lines returns normally, and parse_pypeit_file warns and
\* fails only in the data block's interpretation or the runtime checks.
C6_DataMandatoryForParse ==
    /\ (Returned({"parse_pypeit_file"}) /\ ReadIdx(W_data) = {})
          => ret.status \in {"NoData", "IndexError"}
    /\ (Returned({"pypeit_config_lines"}) /\ ReadIdx(W_data) = {}
          /\ ~ NoEndAtAll(W_setup) /\ ~ LoneWord)
          => ret.status = "ok"
    /\ (Returned({"pypeit_config_lines"}) /\ TerminatedData /\ ReadIdx(W_setup) = {}
          /\ ~ LoneWord)
          => ret.status = "ok"
    /\ (Returned({"parse_pypeit_file"}) /\ TerminatedData /\ ReadIdx(W_setup) = {})
          => /\ ret.status \in {"ok"} \cup DataOrRuntimeFailure
             /\ ret.status = "ok" => ret.warnings = {"MissingSetupBlock"}
             /\ (~ call.file_check /\ ~ call.runtime /\ ~ LoneWord /\ Len(ret.files) > 0)
                   => ret.status = "ok"

C6_Witness ==
    /\ Returned({"parse_pypeit_file"})
    /\ ReadIdx(W_data) = {}
    /\ ReadIdx(W_setup) # {}
    /\ ret.status = "NoData"

\* The indices of the lines of a located block, markers included
BlockRange(b) == IF b[1] >= 0 THEN {i \in 0..(Len(Lines) - 1) : b[1] - 1 <= i /\ i <= b[2]} ELSE {}

\* The indices from one marker of a located block to the other
MarkerSpan(b) ==
    IF b[1] >= 0 /\ b[2] >= 0
    THEN {i \in 0..(Len(Lines) - 1) :
            \/ (b[1] - 1 <= i /\ i <= b[2])
            \/ (b[2] <= i /\ i <= b[1] - 1)}
    ELSE {}

\* C7: the lines a partitioner returns are the lines outside the range
\* [start-1, end] of each located block, in order; no marker line of a
\* located block and no line between its markers is returned.
C7_ConfigIsComplement ==
    (Returned(Partitioners) /\ ret.status = "ok")
        => /\ ret.keep = (0..(Len(Lines) - 1)) \ (BlockRange(ret.data) \cup BlockRange(ret.setup))
           /\ ret.cfg = np_select(Lines, ret.keep, 0)
           /\ ret.keep \cap (MarkerSpan(ret.data) \cup MarkerSpan(ret.setup)) = {}

(***************************************************************************)
(* Raw-format data blocks: up to MaxRawLines lines over a directory that   *)
(* may hold the file a, the directory d and the file d/a.                  *)
(***************************************************************************)
RawLineSet ==
    { W_path \o <<" ", "d">>,
      W_skip \o <<" ", "a">>,
      <<"a">>,
      <<"*">> }

RawFs ==
    { f \in SUBSET { << <<"a">>, "file" >>, << <<"d">>, "dir" >>, << <<"d", "/", "a">>, "file" >> } :
        << <<"d", "/", "a">>, "file" >> \in f => << <<"d">>, "dir" >> \in f }

InitRaw ==
    /\ text = <<>>
    /\ dlines \in BoundedSeq(RawLineSet, MaxRawLines)
    /\ fs \in RawFs
    /\ call = NoCall
    /\ ret = NoRet
    /\ pc = "ready"

ReadNames ==
    /\ pc = "ready"
    /\ \E file_check \in BOOLEAN :
       \E ls \in Perms(FsPaths(fs)) :
       \E ho \in ReadOrders(dlines, ls) :
          /\ call' = [fn |-> "_read_data_file_names", file_check |-> file_check]
          /\ ret' = _read_data_file_names(dlines, file_check, fs, ls, ho)
    /\ pc' = "done"
    /\ UNCHANGED <<text, dlines, fs>>

NextRaw == ReadNames

SpecRaw == InitRaw /\ [][NextRaw]_vars

\* The kind of line k of the block: "skip", "path" or "read"
EntryKind(k) ==
    LET w == str_split_on(dlines[k], " ")[1] IN
    IF w = W_skip THEN "skip" ELSE IF w = W_path THEN "path" ELSE "read"

\* What follows the first space of line k
EntryArg(k) == SubSeq(dlines[k], str_find(dlines[k], " ") + 2, Len(dlines[k]))

\* The pattern line k stands for, relative to the most recent path line
\* before it
EntryPattern(k) ==
    LET before == {j \in 1..(k - 1) : EntryKind(j) = "path"}
        own == IF EntryKind(k) = "skip" THEN EntryArg(k) ELSE dlines[k]
        user == IF Head(own) = "~" THEN expanduser(own) ELSE own
    IN IF before = {} THEN user
       ELSE os_path_join(EntryArg(CHOOSE j \in before : \A i \in before : i <= j), user)

\* The glob expansion of the lines of one kind
Expansion(kind) ==
    {p \in FsPaths(fs) : \E k \in 1..Len(dlines) :
        EntryKind(k) = kind /\ glob_match(EntryPattern(k), p)}

\* C1: the list _read_data_file_names returns has no duplicates and holds
\* the glob expansions of the read entries minus those of the skip entries,
\* each entry expanded relative to the most recent path line before it.
C1_ReadMinusSkip ==
    (Returned({"_read_data_file_names"}) /\ ret.status = "ok")
        => /\ ~ HasDuplicates(ret.files)
           /\ Range(ret.files) = Expansion("read") \ Expansion("skip")

\* A block with a path line whose reads repeat a file, one of them skipped
C1_Witness ==
    /\ Returned({"_read_data_file_names"})
    /\ ret.status = "ok"
    /\ \E k \in 1..Len(dlines) : EntryKind(k) = "path"
    /\ Expansion("read") \cap Expansion("skip") # {}
    /\ \E ls \in Perms(FsPaths(fs)) :
          HasDuplicates(names_loop(dlines, 1, None, <<>>, <<>>, ls).read_inp)
    /\ ret.files # <<>>

(***************************************************************************)
(* make_pypeit_file.  An optional argument is [given |-> FALSE] for None   *)
(* and [given |-> TRUE, v |-> list] otherwise; for data_files, given tells *)
(* whether the argument is a list.  The text of the comment lines, the     *)
(* version and the date are shortened to one letter each.                  *)
(***************************************************************************)
NoArg == [given |-> FALSE, v |-> <<>>]
Arg(x) == [given |-> TRUE, v |-> x]

C_version == <<"#", " ", "V", "\n">>
C_date    == <<"#", " ", "D", "\n">>
C_user    == <<"#", " ", "U", "\n">>
C_setup   == <<"#", " ", "S", "\n">>
C_data    == <<"#", " ", "R", "\n">>

D_rdx == <<"[", "r", "d", "x", "]">>
D_spectrograph ==
    <<" ", " ", " ", " ", "s", "p", "e", "c", "t", "r", "o", "g", "r", "a", "p", "h", " ", "=", " ">>

\* The concatenation of the strings of a list
RECURSIVE concat(_)
concat(parts) == IF parts = <<>> THEN <<>> ELSE Head(parts) \o concat(Tail(parts))

data_file_line_unterminated(datafile) == <<" ">> \o datafile

\* f.write(' '+datafile+'\n')
data_file_line(datafile) == <<" ">> \o datafile \o NL

path_line_bare(path) == <<" ">> \o path \o NL

\* f.write(' path '+path+'\n')
path_line(path) == <<" ">> \o W_path \o <<" ">> \o path \o NL

make_pypeit_file(spectrograph, data_files, cfg_lines, setup_lines, sorted_files, paths) ==
    IF ~ data_files.given THEN [status |-> "IOError", text |-> <<>>]
    ELSE
      LET _cfg_lines == IF ~ cfg_lines.given
                        THEN <<D_rdx, D_spectrograph \o spectrograph>>
                        ELSE cfg_lines.v
      IN [status |-> "ok",
          text |->
            C_version \o C_date \o NL \o C_user
            \o str_join(NL, _cfg_lines) \o NL \o NL
            \o (IF setup_lines.given
                THEN C_setup \o L_setup_read \o NL \o str_join(NL, setup_lines.v) \o NL
                     \o L_setup_end \o NL \o NL
                ELSE <<>>)
            \o C_data \o L_data_read \o NL
            \o concat([i \in 1..Len(data_files.v) |-> data_file_line(data_files.v[i])])
            \o (IF paths.given
                THEN concat([i \in 1..Len(paths.v) |-> path_line(paths.v[i])]) ELSE <<>>)
            \o (IF sorted_files.given THEN str_join(NL, sorted_files.v) \o NL ELSE <<>>)
            \o L_data_end \o NL \o NL]

(***************************************************************************)
(* Writing a reduction file and reading its data block back                *)
(***************************************************************************)
NameSet == {<<"a">>, <<"b">>, <<"*">>, W_data}

L_header == <<"|", " ">> \o W_filename \o <<" ", "|", " ">> \o W_frametype \o <<" ", "|">>
L_row    == <<"|", " ", "a", " ", "|", " ", "x", " ", "|">>
L_setup_A == <<"S", "e", "t", "u", "p", " ", "A", ":">>

WriterFs == SUBSET { << <<"a">>, "file" >>, << <<"b">>, "file" >> }

InitWriter ==
    /\ text = <<>>
    /\ dlines = <<>>
    /\ fs \in WriterFs
    /\ call = NoCall
    /\ ret = NoRet
    /\ pc = "ready"

WriteFile ==
    /\ pc = "ready"
    /\ \E data_files \in {NoArg} \cup {Arg(x) : x \in BoundedSeq(NameSet, MaxFiles)},
          cfg_lines \in {NoArg, Arg(<<D_rdx>>)},
          setup_lines \in {NoArg, Arg(<<L_setup_A>>)},
          sorted_files \in {NoArg, Arg(<<L_header, L_row>>)},
          paths \in {NoArg, Arg(<< <<"d">> >>)} :
          LET w == make_pypeit_file(<<"k">>, data_files, cfg_lines, setup_lines,
                                    sorted_files, paths)
          IN /\ call' = [fn |-> "make_pypeit_file", data_files |-> data_files,
                         cfg_lines |-> cfg_lines, setup_lines |-> setup_lines,
                         sorted_files |-> sorted_files, paths |-> paths]
             /\ text' = IF w.status = "ok" THEN w.text ELSE text
             /\ ret' = [status |-> IF w.status = "ok" THEN "written" ELSE w.status]
             /\ pc' = IF w.status = "ok" THEN "written" ELSE "done"
    /\ UNCHANGED <<dlines, fs>>

\* _read_pypeit_file_lines, _find_pypeit_block and _read_data_file_names on
\* the file written
ReadBack ==
    /\ pc = "written"
    /\ LET flines == _read_pypeit_file_lines(text)
           b == _find_pypeit_block(flines, W_data)
           block == Slice(flines, b.start, b.end)
       IN /\ dlines' = IF b.status = "ok" THEN block ELSE <<>>
          /\ \E file_check \in BOOLEAN :
             \E ls \in Perms(FsPaths(fs)) :
             \E ho \in ReadOrders(block, ls) :
                ret' = IF b.status # "ok"
                       THEN [status |-> b.status, files |-> <<>>, file_check |-> file_check]
                       ELSE [file_check |-> file_check] @@
                            _read_data_file_names(block, file_check, fs, ls, ho)
    /\ pc' = "done"
    /\ UNCHANGED <<text, fs, call>>

NextWriter == WriteFile \/ ReadBack

SpecWriter == InitWriter /\ [][NextWriter]_vars

\* A plain file name: not empty, free of whitespace, "#" and glob magic,
\* not starting with "~", and none of the words skip, path and data
IsPlain(name) ==
    /\ name # <<>>
    /\ \A i \in 1..Len(name) : name[i] \notin Whitespace \cup {"#", "*", "?", "["}
    /\ Head(name) # "~"
    /\ name \notin {W_skip, W_path, W_data}

ReadBackDone == pc = "done" /\ call.fn = "make_pypeit_file" /\ ret.status # "IOError"

PlainDistinct ==
    /\ ~ call.setup_lines.given
    /\ ~ HasDuplicates(call.data_files.v)
    /\ \A i \in 1..Len(call.data_files.v) : IsPlain(call.data_files.v[i])

\* C2 as stated: a list of distinct plain file names written with no setup
\* lines is read back unchanged, in the same order.
C2_RoundTrip ==
    (ReadBackDone /\ PlainDistinct)
        => (ret.status = "ok" /\ ret.files = call.data_files.v)

\* C2 (amended): a list of distinct plain file names, each of them an
\* existing regular file, written with no setup lines is read back
\* unchanged, in the same order.
C2_RoundTripOfExistingFiles ==
    (ReadBackDone /\ PlainDistinct
        /\ \A i \in 1..Len(call.data_files.v) : isfile(fs, call.data_files.v[i]))
        => (ret.status = "ok" /\ ret.files = call.data_files.v)

C2_Witness ==
    /\ ReadBackDone
    /\ PlainDistinct
    /\ call.data_files.v = << <<"b">>, <<"a">> >>
    /\ ret.files = << <<"b">>, <<"a">> >>

(***************************************************************************)
(* Table-format data blocks: up to MaxTableLines lines, each a path line,  *)
(* a header or a row, over the files d/a and e/a.                          *)
(***************************************************************************)
L_short == <<"|", " ", "a", " ", "|">>
L_tight == <<"|">> \o W_frametype \o <<"|">>

TableLineSet ==
    { W_path \o <<" ", "d">>, W_path \o <<" ", "e">>, L_header, L_row, L_short, L_tight }

TableFs == SUBSET { << <<"d", "/", "a">>, "file" >>, << <<"e", "/", "a">>, "file" >> }

InitTable ==
    /\ text = <<>>
    /\ dlines \in BoundedSeq(TableLineSet, MaxTableLines)
    /\ fs \in TableFs
    /\ call = NoCall
    /\ ret = NoRet
    /\ pc = "ready"

ReadTable ==
    /\ pc = "ready"
    /\ \E file_check \in BOOLEAN :
          /\ call' = [fn |-> "_read_data_file_table", file_check |-> file_check]
          /\ ret' = _read_data_file_table(dlines, file_check, fs)
    /\ pc' = "done"
    /\ UNCHANGED <<text, dlines, fs>>

NextTable == ReadTable

SpecTable == InitTable /\ [][NextTable]_vars

\* The block is in table mode: some line starts with "|"
TableMode == \E k \in 1..Len(dlines) : dlines[k] # <<>> /\ dlines[k][1] = "|"

\* The header row: the first line that starts with "|"
HeaderAt == CHOOSE k \in 1..Len(dlines) : dlines[k][1] = "|" /\ \A j \in 1..(k-1) : dlines[j][1] # "|"

\* The cells of a "|"-delimited line
Cells(l) ==
    LET c == str_split_on(l, "|") IN [i \in 1..(Len(c) - 2) |-> str_strip(c[i + 1])]

\* The declared paths: what follows "path " on the lines before the header
DeclaredPaths == [k \in 1..(HeaderAt - 1) |-> SubSeq(dlines[k], 6, Len(dlines[k]))]

\* The rows: the lines after the header
RowCount == Len(dlines) - HeaderAt
RowName(i) == Cells(dlines[HeaderAt + i])[1]

\* The table is well formed: the header names both columns, filename first,
\* and every row has as many cells as the header
WellFormedTable ==
    /\ TableMode
    /\ dlines[HeaderAt] = L_header
    /\ \A i \in 1..RowCount : dlines[HeaderAt + i][1] = "|"
                              /\ Len(Cells(dlines[HeaderAt + i])) = 2

\* The declared paths under which the file of row i exists
Hits(i) == {k \in 1..Len(DeclaredPaths) : isfile(fs, os_path_join(DeclaredPaths[k], RowName(i)))}

\* C8: each row of a table resolves to join(p, filename) for the first
\* declared path p where that file exists, whatever the number of declared
\* paths; a row that no declared path resolves is the fatal missing-file
\* error when file_check is set; the list has one entry per row, in order.
C8_FirstExistingPath ==
    (Returned({"_read_data_file_table"}) /\ WellFormedTable)
        => /\ (call.file_check /\ \E i \in 1..RowCount : Hits(i) = {})
                 => ret.status = "MissingFile"
           /\ (\A i \in 1..RowCount : Hits(i) # {}) => ret.status = "ok"
           /\ ret.status = "ok"
                 => /\ Len(ret.files) = RowCount
                    /\ \A i \in 1..RowCount : Hits(i) # {}
                          => ret.files[i] = os_path_join(DeclaredPaths[Min(Hits(i))], RowName(i))

\* The same for tables that declare at least one path
C8_WithDeclaredPath ==
    (Returned({"_read_data_file_table"}) /\ WellFormedTable /\ HeaderAt > 1)
        => /\ (call.file_check /\ \E i \in 1..RowCount : Hits(i) = {})
                 => ret.status = "MissingFile"
           /\ (\A i \in 1..RowCount : Hits(i) # {}) => ret.status = "ok"
           /\ ret.status = "ok"
                 => /\ Len(ret.files) = RowCount
                    /\ \A i \in 1..RowCount : Hits(i) # {}
                          => ret.files[i] = os_path_join(DeclaredPaths[Min(Hits(i))], RowName(i))

\* C9: a table whose header row lacks the filename or the frametype column
\* fails with the schema error before any data row is read or checked.
C9_SchemaErrorFirst ==
    (Returned({"_read_data_file_table"}) /\ TableMode
        /\ ~ ({W_filename, W_frametype} \subseteq Range(Cells(dlines[HeaderAt]))))
        => (ret.status = "SchemaError" /\ ret.rows_read = 0)

\* The same for headers that hold a space
C9_SpacedHeader ==
    (Returned({"_read_data_file_table"}) /\ TableMode
        /\ str_find(dlines[HeaderAt], " ") >= 0
        /\ ~ ({W_filename, W_frametype} \subseteq Range(Cells(dlines[HeaderAt]))))
        => (ret.status = "SchemaError" /\ ret.rows_read = 0)

(***************************************************************************)
(* eval: the Python expressions made of integers, names, parentheses,      *)
(* commas and blanks.  A str is first parsed into a tree, a SyntaxError    *)
(* when that fails, and the tree is then evaluated, a NameError at an      *)
(* unknown name.  Values carry their type in t.                            *)
(***************************************************************************)
DigitSeq == <<"0", "1", "2", "3", "4", "5", "6", "7", "8", "9">>
Digits == Range(DigitSeq)
DigitVal(c) == (CHOOSE i \in 1..10 : DigitSeq[i] = c) - 1

Letters ==
    {"a","b","c","d","e","f","g","h","i","j","k","l","m","n","o","p","q","r","s","t",
     "u","v","w","x","y","z","A","B","C","D","E","F","G","H","I","J","K","L","M","N",
     "O","P","Q","R","S","T","U","V","W","X","Y","Z","_"}

IntV(n)    == [t |-> "int", v |-> n]
StrV(x)    == [t |-> "str", v |-> x]
BoolV(b)   == [t |-> "bool", v |-> b]
TupleV(x)  == [t |-> "tuple", v |-> x]
ListV(x)   == [t |-> "list", v |-> x]
DictV(x)   == [t |-> "dict", v |-> x]
NameV(x)   == [t |-> "name", v |-> x]
BuiltinV(x) == [t |-> "builtin", v |-> x]
NoneValue == [t |-> "NoneType", v |-> <<>>]

W_open  == <<"o","p","e","n">>
W_file  == <<"f","i","l","e">>
W_dict  == <<"d","i","c","t">>
W_list  == <<"l","i","s","t">>
W_tuple == <<"t","u","p","l","e">>
W_True  == <<"T","r","u","e">>
W_False == <<"F","a","l","s","e">>
W_None  == <<"N","o","n","e">>

\* The names of the expressions that the interpreter binds (file is not
\* one of them in Python 3)
BuiltinNames == {W_open, W_dict, W_list, W_tuple}

\* The first position from i on that holds no blank
RECURSIVE skip_blank(_, _)
skip_blank(s, i) == IF i <= Len(s) /\ s[i] \in {" ", "\t"} THEN skip_blank(s, i + 1) ELSE i

\* The first position from i on that holds no character of set C
RECURSIVE skip_run(_, _, _)
skip_run(s, i, C) == IF i <= Len(s) /\ s[i] \in C THEN skip_run(s, i + 1, C) ELSE i

\* The value of a run of decimal digits
RECURSIVE decimal(_)
decimal(ds) == IF ds = <<>> THEN 0 ELSE 10 * decimal(SubSeq(ds, 1, Len(ds) - 1)) + DigitVal(ds[Len(ds)])

ParseFail == [ok |-> FALSE, val |-> IntV(0), comma |-> FALSE, pos |-> 0]

RECURSIVE parse_atom(_, _)
RECURSIVE parse_items(_, _, _, _)

Parsed(val, comma, pos) == [ok |-> TRUE, val |-> val, comma |-> comma, pos |-> pos]

\* An integer literal with digits ds, ending before position j
atom_digits(s, ds, j) ==
    IF j <= Len(s) /\ s[j] \in Letters THEN ParseFail
    ELSE IF Len(ds) > 1 /\ ds[1] = "0" /\ \E k \in 1..Len(ds) : ds[k] # "0" THEN ParseFail
    ELSE Parsed(IntV(decimal(ds)), FALSE, j)

\* The value of a bracketed expression list: a call of callee, or the list
\* itself when callee is empty
group_value(callee, val) == IF callee = <<>> THEN val ELSE [t |-> "call", v |-> callee]

\* The closing parenthesis at position n, after the expression list a
atom_closed(s, a, n, callee) ==
    IF a.ok /\ n <= Len(s) /\ s[n] = ")"
    THEN Parsed(group_value(callee, a.val), FALSE, n + 1)
    ELSE ParseFail

atom_listed(s, a, callee) == atom_closed(s, a, skip_blank(s, a.pos), callee)

\* What follows an opening parenthesis, from position m on
atom_group(s, m, callee) ==
    IF m <= Len(s) /\ s[m] = ")"
    THEN Parsed(group_value(callee, TupleV(<<>>)), FALSE, m + 1)
    ELSE atom_listed(s, parse_items(s, m, <<>>, FALSE), callee)

\* A name that ends before position j, the next non-blank being at k
atom_name(s, name, j, k) ==
    IF k <= Len(s) /\ s[k] = "(" THEN atom_group(s, skip_blank(s, k + 1), name)
    ELSE Parsed(NameV(name), FALSE, j)

atom_word(s, i, j) == atom_name(s, SubSeq(s, i, j - 1), j, skip_blank(s, j))

atom_int(s, i, j) == atom_digits(s, SubSeq(s, i, j - 1), j)

\* An atom at position i: an integer, a name, a call, or a parenthesised
\* expression list
parse_atom(s, i) ==
    IF i > Len(s) THEN ParseFail
    ELSE IF s[i] \in Digits THEN atom_int(s, i, skip_run(s, i, Digits))
    ELSE IF s[i] \in Letters THEN atom_word(s, i, skip_run(s, i, Letters \cup Digits))
    ELSE IF s[i] = "(" THEN atom_group(s, skip_blank(s, i + 1), <<>>)
    ELSE ParseFail

\* What follows a comma, from position k on: the end of the list (a
\* trailing comma) or its next item
items_more(s, items, k) ==
    IF k > Len(s) \/ s[k] = ")" THEN Parsed(TupleV(items), TRUE, k)
    ELSE parse_items(s, k, items, TRUE)

\* What follows an item, from position j on
items_next(s, items, comma, j) ==
    IF j <= Len(s) /\ s[j] = "," THEN items_more(s, items, skip_blank(s, j + 1))
    ELSE Parsed(IF comma THEN TupleV(items) ELSE items[1], comma, j)

items_after(s, acc, comma, a) ==
    IF ~ a.ok THEN ParseFail
    ELSE items_next(s, acc \o <<a.val>>, comma, skip_blank(s, a.pos))

\* An expression list from position i on: atoms separated by commas, a
\* trailing comma allowed; a tuple when it holds a comma
parse_items(s, i, acc, comma) == items_after(s, acc, comma, parse_atom(s, i))

RECURSIVE eval_error(_)

\* The exception of the first of items i.. that raises one, "" when none
RECURSIVE first_error(_, _)
first_error(items, i) ==
    IF i > Len(items) THEN ""
    ELSE IF eval_error(items[i]) # "" THEN eval_error(items[i])
    ELSE first_error(items, i + 1)

\* The exception the evaluation of a parsed tree raises, "" when none
eval_error(tree) ==
    IF tree.t = "name"
    THEN (IF tree.v \in BuiltinNames \cup {W_True, W_False, W_None} THEN "" ELSE "NameError")
    ELSE IF tree.t = "call"
    THEN (IF tree.v \in BuiltinNames THEN "TypeError" ELSE "NameError")
    ELSE IF tree.t = "tuple" THEN first_error(tree.v, 1)
    ELSE ""

\* The value of a parsed tree that evaluates without exception
RECURSIVE eval_value(_)
eval_value(tree) ==
    IF tree.t = "name"
    THEN (IF tree.v = W_True THEN BoolV(TRUE)
          ELSE IF tree.v = W_False THEN BoolV(FALSE)
          ELSE IF tree.v = W_None THEN NoneValue
          ELSE BuiltinV(tree.v))
    ELSE IF tree.t = "tuple"
    THEN TupleV([i \in 1..Len(tree.v) |-> eval_value(tree.v[i])])
    ELSE tree

Raised(status) == [status |-> status, val |-> NoneValue]

eval_outcome(tree, err) ==
    IF err # "" THEN Raised(err) ELSE [status |-> "ok", val |-> eval_value(tree)]

\* The whole text must be one expression list
eval_parsed(s, a) ==
    IF ~ a.ok \/ a.pos <= Len(str_rstrip(s)) THEN Raised("SyntaxError")
    ELSE eval_outcome(a.val, eval_error(a.val))

eval_at(s, i) ==
    IF i > Len(s) THEN Raised("SyntaxError")
    ELSE eval_parsed(s, parse_items(s, i, <<>>, FALSE))

\* eval(s)
py_eval(s) == eval_at(s, skip_blank(s, 1))

(***************************************************************************)
(* _eval_ignore, eval_tuple, recursive_dict_evaluate.  A dictionary is the *)
(* sequence of its values in key order: a str, a list of str, or a nested  *)
(* dictionary.                                                             *)
(***************************************************************************)
_eval_ignore == {W_open, W_file, W_dict, W_list, W_tuple}

has_paren_never(inp) == FALSE

\* any(['(' in e for e in d[k]])
has_paren(inp) == \E i \in 1..Len(inp) : "(" \in Range(inp[i])

\* msgs.error raises PypeItError when the joined text does not evaluate;
\* iterating a result that is not a tuple raises TypeError
tuple_list(basic) ==
    IF basic.status # "ok" THEN Raised("PypeItError")
    ELSE IF basic.val.t # "tuple" THEN Raised("TypeError")
    ELSE IF \E i \in 1..Len(basic.val.v) : basic.val.v[i].t = "tuple"
         THEN [status |-> "ok", val |-> ListV(basic.val.v)]
    ELSE [status |-> "ok", val |-> ListV(<<basic.val>>)]

eval_tuple(inp) == tuple_list(py_eval(str_join(<<",">>, inp)))

kept_unevaluated(v, r) == StrV(v)

kept(v, r) == IF r.status = "ok" THEN r.val ELSE StrV(v)

\* eval(v) unless v is in the ignore list, v itself when eval raises
eval_or_keep(v) == IF v \in _eval_ignore THEN StrV(v) ELSE kept(v, py_eval(v))

RECURSIVE evaluate_from(_, _, _)

\* The value that replaces d[k], or the exception that ends the call
evaluate_value(x) ==
    IF x.t = "dict"
    THEN LET r == evaluate_from(x.v, 1, <<>>) IN [status |-> r.status, val |-> DictV(r.d)]
    ELSE IF x.t = "list" /\ has_paren(x.v) THEN eval_tuple(x.v)
    ELSE IF x.t = "list"
         THEN [status |-> "ok", val |-> ListV([i \in 1..Len(x.v) |-> eval_or_keep(x.v[i])])]
    ELSE [status |-> "ok", val |-> eval_or_keep(x.v)]

\* The loop over the keys, from key k on
evaluate_from(d, k, done) ==
    IF k > Len(d) THEN [status |-> "ok", d |-> done]
    ELSE LET r == evaluate_value(d[k]) IN
         IF r.status # "ok" THEN [status |-> r.status, d |-> done]
         ELSE evaluate_from(d, k + 1, done \o <<r.val>>)

recursive_dict_evaluate(d) == evaluate_from(d, 1, <<>>)

(***************************************************************************)
(* Dictionaries with one key, whose value is a str, a list of up to        *)
(* MaxList str, or a dictionary with one such key.                         *)
(***************************************************************************)
S_3      == <<"3">>
S_bogusL == <<"b","o","g","u","s","(">>
S_bogusR == <<"b","o","g","u","s",")">>
S_open1  == <<"(","1">>
S_close2 == <<"2",")">>

EvalStrings == {W_open, S_3, S_bogusL, S_bogusR, S_open1, S_close2}

S_paren3 == <<"(", "3", ")">>
S_pair   == <<"(", "1", ",", "2", ")">>

\* The elements of the lists handed to eval_tuple
TupleStrings == EvalStrings \cup {S_paren3, S_pair}

S_1    == <<"1">>
S_true == <<"t","r","u","e">>

\* The scalar values: the strings above, the protected literals, and the
\* spellings of an integer and of a truth value
EvalScalars == EvalStrings \cup _eval_ignore \cup {S_1, S_true, W_True}

EvalLeaves ==
    {StrV(x) : x \in EvalScalars} \cup {ListV(l) : l \in BoundedSeq(EvalStrings, MaxList)}

\* The mapping read from "foo = 1", "bar = (1,2)", "baz = <truth>"
FooBarBaz(truth) == <<StrV(S_1), ListV(<<S_open1, S_close2>>), StrV(truth)>>

EvalDicts ==
    {<<x>> : x \in EvalLeaves} \cup {<<DictV(<<x>>)>> : x \in EvalLeaves}
        \cup {FooBarBaz(S_true), FooBarBaz(W_True)}

InitEval ==
    /\ text = <<>>
    /\ dlines = <<>>
    /\ fs = {}
    /\ call = NoCall
    /\ ret = NoRet
    /\ pc = "ready"

Evaluate ==
    /\ pc = "ready"
    /\ \E d \in EvalDicts :
          /\ call' = [fn |-> "recursive_dict_evaluate", d |-> d]
          /\ ret' = recursive_dict_evaluate(d)
    /\ pc' = "done"
    /\ UNCHANGED <<text, dlines, fs>>

EvalTuple ==
    /\ pc = "ready"
    /\ \E inp \in {l \in BoundedSeq(TupleStrings, MaxList) : has_paren(l)} :
          /\ call' = [fn |-> "eval_tuple", inp |-> inp]
          /\ ret' = eval_tuple(inp)
    /\ pc' = "done"
    /\ UNCHANGED <<text, dlines, fs>>

NextEval == Evaluate \/ EvalTuple

SpecEval == InitEval /\ [][NextEval]_vars

Evaluated(x) == Returned({"recursive_dict_evaluate"}) /\ call.d = <<ListV(x)>>

FooBarCoerced ==
    /\ ret.status = "ok"
    /\ Len(ret.d) = 3
    /\ ret.d[1] = IntV(1)
    /\ ret.d[2] = ListV(<<TupleV(<<IntV(1), IntV(2)>>)>>)

\* A scalar string equal to a protected literal is left unchanged
ProtectedUnchanged ==
    (Returned({"recursive_dict_evaluate"}) /\ Len(call.d) = 1 /\ call.d[1].t = "str"
        /\ call.d[1].v \in {W_open, W_file, W_dict, W_list, W_tuple})
        => (ret.status = "ok" /\ ret.d = call.d)

\* C11 as stated: the mapping foo -> "1", bar -> ["(1", "2)"], baz -> "true"
\* is evaluated to foo = 1, bar = [(1, 2)], baz = True, and a scalar equal to
\* a protected literal is left unchanged.
C11_TrueLowercaseIsBoolean ==
    /\ (Returned({"recursive_dict_evaluate"}) /\ call.d = FooBarBaz(S_true))
          => (FooBarCoerced /\ ret.d[3] = BoolV(TRUE))
    /\ ProtectedUnchanged

\* C11 (amended): foo -> "1" becomes the integer 1 and bar -> ["(1", "2)"]
\* the list [(1, 2)]; baz becomes the boolean True when its text is "True",
\* and stays the string "true" when its text is "true"; a scalar equal to a
\* protected literal is left unchanged.
C11_ScalarAndTupleCoercion ==
    /\ (Returned({"recursive_dict_evaluate"}) /\ call.d = FooBarBaz(W_True))
          => (FooBarCoerced /\ ret.d[3] = BoolV(TRUE))
    /\ (Returned({"recursive_dict_evaluate"}) /\ call.d = FooBarBaz(S_true))
          => (FooBarCoerced /\ ret.d[3] = StrV(S_true))
    /\ ProtectedUnchanged

C11_Witness ==
    /\ Returned({"recursive_dict_evaluate"})
    /\ call.d = FooBarBaz(W_True)
    /\ ret.status = "ok"

(***************************************************************************)
(* The order of the sections of a written file                             *)
(***************************************************************************)
Written == pc = "written" /\ call.fn = "make_pypeit_file"

\* The lines of the written file that are not blank, newlines removed
WrittenLines == SelectSeq(str_split_on(text, "\n"), LAMBDA l : l # <<>>)

Chomp(l) == SubSeq(l, 1, Len(l) - 1)

HeaderSection == <<Chomp(C_version), Chomp(C_date), Chomp(C_user)>>

ConfigSection ==
    IF call.cfg_lines.given THEN call.cfg_lines.v
    ELSE <<D_rdx, D_spectrograph \o <<"k">> >>

SetupSection ==
    IF call.setup_lines.given
    THEN <<Chomp(C_setup), L_setup_read>> \o call.setup_lines.v \o <<L_setup_end>>
    ELSE <<>>

FileSection == [i \in 1..Len(call.data_files.v) |-> <<" ">> \o call.data_files.v[i]]

PathSection ==
    IF call.paths.given
    THEN [i \in 1..Len(call.paths.v) |-> <<" ", "p", "a", "t", "h", " ">> \o call.paths.v[i]]
    ELSE <<>>

RowSection == IF call.sorted_files.given THEN call.sorted_files.v ELSE <<>>

LinesEqual(l) == {i \in 1..Len(WrittenLines) : WrittenLines[i] = l}

\* C12: the lines of a written file are the header comments, the
\* configuration lines (the default pair when none are supplied), the setup
\* block if and only if setup lines were supplied, the data comment and
\* `data read`, the data file lines, the path lines, the table rows and
\* `data end`, in this order; there is exactly one `data read` line and it
\* precedes the `data end` line.
C12_SectionsInFixedOrder ==
    Written =>
        /\ WrittenLines = HeaderSection \o ConfigSection \o SetupSection
                            \o <<Chomp(C_data), L_data_read>>
                            \o FileSection \o PathSection \o RowSection
                            \o <<L_data_end>>
        /\ Cardinality(LinesEqual(L_data_read)) = 1
        /\ Cardinality(LinesEqual(L_data_end)) = 1
        /\ \A i \in LinesEqual(L_data_read) : \A j \in LinesEqual(L_data_end) : i < j
        /\ (LinesEqual(L_setup_read) # {}) = call.setup_lines.given

C12_Witness ==
    /\ Written
    /\ call.cfg_lines.given /\ call.setup_lines.given
    /\ call.sorted_files.given /\ call.paths.given
    /\ Len(call.data_files.v) = 2
    /\ Len(WrittenLines) = 16

(***************************************************************************)
(* get_parset_list.  A configuration is the sequence of its sections in    *)
(* key order; a section is "good" when parsetclass.from_dict builds a      *)
(* parameter set from it, "bad" when from_dict raises, "None" when it is   *)
(* None.  The root keyword pk is a single character.  A parameter set is   *)
(* identified by the key of its section.                                   *)
(***************************************************************************)
\* _k.replace(pk, '')
remove_char(s, c) == SelectSeq(s, LAMBDA x : x # c)

signed_int(t, ds) ==
    IF ds = <<>> \/ \E i \in 1..Len(ds) : ds[i] \notin Digits THEN [ok |-> FALSE, v |-> 0]
    ELSE [ok |-> TRUE, v |-> IF t[1] = "-" THEN 0 - decimal(ds) ELSE decimal(ds)]

stripped_int(t) ==
    IF t # <<>> /\ t[1] \in {"+", "-"} THEN signed_int(t, Tail(t)) ELSE signed_int(t, t)

\* int(s): blanks around, an optional sign, decimal digits; ValueError
\* (ok false) otherwise
py_int(s) == stripped_int(str_strip(s))

\* The for loop over the keys, from key i on.  order grows before from_dict
\* is called, par only when from_dict returns.
RECURSIVE parset_loop(_, _, _, _, _)
parset_loop(cfg, pk, i, par, order) ==
    IF i > Len(cfg) THEN [par |-> par, order |-> order]
    ELSE IF cfg[i].key = <<pk>> /\ cfg[i].val = "None"
         THEN parset_loop(cfg, pk, i + 1, par, order)
    ELSE IF str_find(cfg[i].key, pk) < 0 THEN parset_loop(cfg, pk, i + 1, par, order)
    ELSE IF ~ py_int(remove_char(cfg[i].key, pk)).ok
         THEN parset_loop(cfg, pk, i + 1, par, order)
    ELSE IF cfg[i].val # "good"
         THEN parset_loop(cfg, pk, i + 1, par,
                          Append(order, py_int(remove_char(cfg[i].key, pk)).v))
    ELSE parset_loop(cfg, pk, i + 1, Append(par, cfg[i].key),
                     Append(order, py_int(remove_char(cfg[i].key, pk)).v))

\* np.argsort(order), indices from 1: every index order that sorts order
\* (the default sort is not stable, equal values come in any order)
argsort(order) ==
    {q \in Perms(1..Len(order)) : \A i \in 1..(Len(order) - 1) : order[q[i]] <= order[q[i + 1]]}

\* np.arange(n)
arange(n) == [i \in 1..(IF n > 0 THEN n ELSE 0) |-> i - 1]

\* np.any(a != b): arrays of one length are compared element by element, an
\* array of length 1 is broadcast over the other, and any other pair of
\* lengths cannot be compared, which ends in ValueError as well
any_differs(a, b) ==
    IF Len(a) = Len(b) THEN \E i \in 1..Len(a) : a[i] # b[i]
    ELSE IF Len(a) = 1 THEN \E i \in 1..Len(b) : b[i] # a[1]
    ELSE IF Len(b) = 1 THEN \E i \in 1..Len(a) : a[i] # b[1]
    ELSE TRUE

\* np.any(np.array(order)[srt]-1 != np.arange(order[srt[-1]]))
not_sequential(order, srt) ==
    any_differs([i \in 1..Len(srt) |-> order[srt[i]] - 1], arange(order[srt[Len(srt)]]))

\* [par[i] for i in srt]
sorted_instances(par, srt) ==
    IF \E i \in 1..Len(srt) : srt[i] > Len(par)
    THEN [status |-> "IndexError", none |-> FALSE, val |-> <<>>]
    ELSE [status |-> "ok", none |-> FALSE, val |-> [i \in 1..Len(srt) |-> par[srt[i]]]]

parset_result(r, srt) ==
    IF Len(r.par) = 0 THEN [status |-> "ok", none |-> TRUE, val |-> <<>>]
    ELSE IF not_sequential(r.order, srt) THEN [status |-> "ValueError", none |-> FALSE, val |-> <<>>]
    ELSE sorted_instances(r.par, srt)

get_parset_list(cfg, pk, srt) == parset_result(parset_loop(cfg, pk, 1, <<>>, <<>>), srt)

(***************************************************************************)
(* Configurations of up to MaxKeys sections with the root keyword "d"      *)
(***************************************************************************)
ParsetKeys ==
    {<<"d">>, <<"d", "0">>, <<"d", "1">>, <<"d", "2">>, <<"d", "3">>, <<"d", "0", "1">>,
     <<"x", "1">>, <<"d", "x">>}

\* None is drawn for the bare root keyword only, the one key the loop tests
\* for it
Sections ==
    {x \in [key : ParsetKeys, val : {"good", "bad", "None"}] :
        x.val = "None" => x.key = <<"d">>}

Configs ==
    {c \in BoundedSeq(Sections, MaxKeys) :
        \A i, j \in 1..Len(c) : c[i].key = c[j].key => i = j}

InitParset ==
    /\ text = <<>>
    /\ dlines = <<>>
    /\ fs = {}
    /\ call = NoCall
    /\ ret = NoRet
    /\ pc = "ready"

GetParsetList ==
    /\ pc = "ready"
    /\ \E cfg \in Configs :
       \E srt \in argsort(parset_loop(cfg, "d", 1, <<>>, <<>>).order) :
          /\ call' = [fn |-> "get_parset_list", cfg |-> cfg]
          /\ ret' = get_parset_list(cfg, "d", srt)
    /\ pc' = "done"
    /\ UNCHANGED <<text, dlines, fs>>

NextParset == GetParsetList

SpecParset == InitParset /\ [][NextParset]_vars

ParsetDone == Returned({"get_parset_list"})

\* The suffix of a key, as int reads it
KeySuffix(key) == py_int(remove_char(key, "d"))

\* The sections whose key is the root keyword followed by an integer
SuffixSections ==
    {i \in 1..Len(call.cfg) :
        str_find(call.cfg[i].key, "d") >= 0 /\ KeySuffix(call.cfg[i].key).ok}

\* Those of them that yield a parameter set
YieldingSections == {i \in SuffixSections : call.cfg[i].val = "good"}

\* The multiset of the parsed suffixes is {1, ..., N}
Sequential ==
    \A n \in 1..Cardinality(SuffixSections) :
        Cardinality({i \in SuffixSections : KeySuffix(call.cfg[i].key).v = n}) = 1

\* The parameter sets, sorted by ascending suffix
ReturnsSorted ==
    /\ ret.status = "ok" /\ ~ ret.none
    /\ Range(ret.val) = {call.cfg[i].key : i \in YieldingSections}
    /\ Len(ret.val) = Cardinality(YieldingSections)
    /\ \A i \in 1..(Len(ret.val) - 1) : KeySuffix(ret.val[i]).v < KeySuffix(ret.val[i + 1]).v

\* C13 as stated: when some key <pk><integer> yields a parameter set, the
\* parameter sets are returned sorted by suffix if and only if the parsed
\* suffixes are exactly 1..N, and ValueError is raised otherwise; when no
\* key yields one, None is returned.
C13_OnlySequentialSeries ==
    ParsetDone =>
        IF YieldingSections = {} THEN ret.status = "ok" /\ ret.none
        ELSE IF Sequential THEN ReturnsSorted
        ELSE ret.status = "ValueError"

\* What the code does keep: a series 1..N whose sections all yield a
\* parameter set is returned sorted, a configuration without a yielding
\* section returns None, and a series of two or more distinct suffixes that
\* is not 1..N raises ValueError.
C13_SequentialSeriesSorted ==
    ParsetDone =>
        /\ YieldingSections = {} => (ret.status = "ok" /\ ret.none)
        /\ (YieldingSections # {} /\ Sequential /\ YieldingSections = SuffixSections)
              => ReturnsSorted
        /\ (YieldingSections # {} /\ ~ Sequential /\ Cardinality(SuffixSections) >= 2
              /\ \A i, j \in SuffixSections :
                    KeySuffix(call.cfg[i].key).v = KeySuffix(call.cfg[j].key).v => i = j)
              => ret.status = "ValueError"

\* A list every element of which is a tuple
ListOfTuples(x) == x.t = "list" /\ \A i \in 1..Len(x.v) : x.v[i].t = "tuple"

\* C14 as stated: eval_tuple, called on a list of strings one of which holds
\* "(", returns a list every element of which is a tuple or fails with the
\* cannot-evaluate error, and so does recursive_dict_evaluate on such a list.
C14_ListOfTuplesOrFatal ==
    /\ Returned({"eval_tuple"})
          => \/ ret.status = "ok" /\ ListOfTuples(ret.val)
             \/ ret.status = "PypeItError"
    /\ (Returned({"recursive_dict_evaluate"}) /\ Len(call.d) = 1
          /\ call.d[1].t = "list" /\ has_paren(call.d[1].v))
          => \/ ret.status = "ok" /\ ListOfTuples(ret.d[1])
             \/ ret.status = "PypeItError"

\* What eval_tuple does keep: it returns a list that holds a tuple, or fails
\* with the cannot-evaluate error or with TypeError; a text that evaluates
\* to a tuple of tuples is returned flattened, a tuple without tuples is
\* returned wrapped.
C14_ListHoldsATuple ==
    Returned({"eval_tuple"})
        => /\ ret.status \in {"ok", "PypeItError", "TypeError"}
           /\ ret.status = "ok"
                => (ret.val.t = "list" /\ \E i \in 1..Len(ret.val.v) : ret.val.v[i].t = "tuple")
           /\ call.inp = <<S_pair, S_pair>>
                => ret.val = ListV(<<TupleV(<<IntV(1), IntV(2)>>), TupleV(<<IntV(1), IntV(2)>>)>>)
           /\ call.inp = <<S_open1, S_close2>>
                => ret.val = ListV(<<TupleV(<<IntV(1), IntV(2)>>)>>)

====
